---- MODULE Spec2Model ----
(***************************************************************************)
(* Phase profiles on a rectilinear grid (optiland.phase): GridInterpolator *)
(* with its two strategies (spline under "numpy", bilinear grid_sample     *)
(* under "torch"), GridPhaseProfile and HeightProfile; the analysis        *)
(* MTFvsField (optiland.analysis); and the torch gradient closure grad_fn, *)
(* statement by statement over the tensors it allocates.                   *)
(*                                                                         *)
(* Real numbers are exact rationals <<n, d>> with d > 0 in lowest terms;   *)
(* d = 0 holds the IEEE values +inf, -inf and NaN that a division by zero  *)
(* produces.                                                               *)
(* Phases of a HeightProfile carry the common factor be.pi, so they are    *)
(* held in units of pi.                                                    *)
(***************************************************************************)
EXTENDS Integers, Sequences, FiniteSets, TLC

VARIABLES
    backend,    \* the process-wide active backend (be.get_backend())
    profile,    \* the live profile, or NoProfile
    built,      \* how the last construction of `profile` ended
    query,      \* the caller's query arrays x and y
    ret,        \* the last call on `profile` and what it returned
    restored,   \* what from_dict returned, when it was the last operation
    optic,      \* the wavelengths of the optical system an analysis is run on
    analysis,   \* how the last MTFvsField(...) ended, and the instance it made
    tensors,    \* the torch tensors alive while grad_fn runs, by identity
    call        \* the activation of grad_fn: its position and its locals

\* ------------------------------------------------------------------ bounds
\* Grid nodes lie on the integers -1 .. MaxCoord.
MaxCoord == 2
\* An axis has 1 .. MaxLen nodes.
MaxLen == 4
\* A query array holds 1 .. MaxQuery points.
MaxQuery == 2
\* Wavelengths are 1 .. MaxWavelength micrometres.
MaxWavelength == 2

\* --------------------------------------------------------------- rationals
Abs(a) == IF a < 0 THEN -a ELSE a

RECURSIVE Gcd(_, _)
Gcd(a, b) == IF b = 0 THEN a ELSE Gcd(b, a % b)

\* IEEE non-finite values: d = 0 with n = 1 (+inf), -1 (-inf) or 0 (NaN).
NaN == <<0, 0>>

Sgn(n) == IF n > 0 THEN 1 ELSE IF n < 0 THEN -1 ELSE 0

IsFinite(r) == r[2] # 0

Rat(n, d) ==
    IF d = 0 THEN <<Sgn(n), 0>>
    ELSE IF d = 1 THEN <<n, 1>>
    ELSE LET g == Gcd(Abs(n), Abs(d))
         IN  <<(Sgn(d) * n) \div g, Abs(d) \div g>>

Num(k) == <<k, 1>>

Zero == Num(0)

One == Num(1)

RNeg(a) == <<-a[1], a[2]>>

RAdd(a, b) ==
    IF a[2] = 0 /\ b[2] = 0 THEN (IF a[1] = b[1] THEN a ELSE NaN)
    ELSE Rat(a[1] * b[2] + b[1] * a[2], a[2] * b[2])

RSub(a, b) == RAdd(a, RNeg(b))

RMul(a, b) == Rat(a[1] * b[1], a[2] * b[2])

\* 1 / b: 1 / 0 = +inf, 1 / inf = 0, 1 / NaN = NaN.
RRecip(b) ==
    IF b[2] = 0 THEN (IF b[1] = 0 THEN NaN ELSE Zero)
    ELSE IF b[1] = 0 THEN <<1, 0>>
    ELSE <<Sgn(b[1]) * b[2], Abs(b[1])>>

RDiv(a, b) == RMul(a, RRecip(b))

RLe(a, b) == a[1] * b[2] <= b[1] * a[2]

RFloor(a) == a[1] \div a[2]

RECURSIVE RSum(_)
RSum(s) == IF s = <<>> THEN Zero ELSE RAdd(Head(s), RSum(Tail(s)))

RECURSIVE RPow(_, _)
RPow(a, k) == IF k = 0 THEN One ELSE RMul(a, RPow(a, k - 1))

\* ------------------------------------------------- vectors (sequences)
RECURSIVE VScale(_, _)
VScale(v, a) ==
    IF v = <<>> THEN <<>> ELSE <<RMul(Head(v), a)>> \o VScale(Tail(v), a)

RECURSIVE VSub(_, _)
VSub(u, v) ==
    IF u = <<>> THEN <<>> ELSE <<RSub(Head(u), Head(v))>> \o VSub(Tail(u), Tail(v))

RECURSIVE Dot(_, _)
Dot(u, v) ==
    IF u = <<>> THEN Zero ELSE RAdd(RMul(Head(u), Head(v)), Dot(Tail(u), Tail(v)))

RECURSIVE Column(_, _)
Column(rows, j) ==
    IF rows = <<>> THEN <<>> ELSE <<Head(rows)[j]>> \o Column(Tail(rows), j)

\* Gauss-Jordan elimination on an augmented matrix (a sequence of rows), column
\* c onwards; the solution is the last column of the result.
RECURSIVE EliminateRows(_, _, _, _)
EliminateRows(rows, r, c, prow) ==
    IF rows = <<>> THEN <<>>
    ELSE <<IF r = c THEN prow ELSE VSub(Head(rows), VScale(prow, Head(rows)[c]))>>
         \o EliminateRows(Tail(rows), r + 1, c, prow)

RECURSIVE GaussJordan(_, _)
GaussJordan(M, c) ==
    IF c > Len(M) THEN M
    ELSE LET piv == {r \in c..Len(M) : M[r][c] # Zero}
         IN  IF piv = {} THEN [r \in 1..Len(M) |-> [j \in 1..(Len(M) + 1) |-> NaN]]
             ELSE LET p == CHOOSE r \in piv : \A q \in piv : r <= q
                      swapped == [M EXCEPT ![c] = M[p], ![p] = M[c]]
                      prow == VScale(swapped[c], RDiv(One, swapped[c][c]))
                  IN  GaussJordan(EliminateRows(swapped, 1, c, prow), c + 1)

Solve(M) == Column(GaussJordan(M, 1), Len(M) + 1)

\* ------------------------------------- scipy.interpolate.RectBivariateSpline
\* The spline strategy's dependency, with its defaults kx = ky = 3, s = 0: the
\* interpolating tensor-product cubic spline, whose interior knots on an axis
\* t[1..m] are t[3] .. t[m-2].  On each axis it is spanned by 1, u, u^2, u^3
\* and the truncated cubes (u - t[k])^3_+ at the interior knots.
SplineDegree == 3

\* The k-th basis function on axis t at u, or its first derivative (nu = 1).
SplineBasis(t, k, u, nu) ==
    IF k <= SplineDegree + 1
    THEN IF nu = 0 THEN RPow(u, k - 1)
         ELSE IF k = 1 THEN Zero ELSE RMul(Num(k - 1), RPow(u, k - 2))
    ELSE LET knot == t[k - 2]
             w == RSub(u, knot)
         IN  IF RLe(u, knot) THEN Zero
             ELSE IF nu = 0 THEN RPow(w, 3) ELSE RMul(Num(3), RPow(w, 2))

\* <<B_1(u), ..., B_m(u)>> from the k-th basis function on.
RECURSIVE BasisVector(_, _, _, _)
BasisVector(t, k, u, nu) ==
    IF k > Len(t) THEN <<>>
    ELSE <<SplineBasis(t, k, u, nu)>> \o BasisVector(t, k + 1, u, nu)

\* The collocation matrix of axis t: one row of basis values per node.
RECURSIVE Collocation(_, _)
Collocation(t, sites) ==
    IF sites = <<>> THEN <<>>
    ELSE <<BasisVector(t, 1, Head(sites), 0)>> \o Collocation(t, Tail(sites))

RECURSIVE Augment(_, _)
Augment(A, rhs) ==
    IF A = <<>> THEN <<>>
    ELSE <<Head(A) \o <<Head(rhs)>>>> \o Augment(Tail(A), Tail(rhs))

\* For each right-hand side b of rhss, the solution of A c = b.
RECURSIVE SolveEach(_, _)
SolveEach(A, rhss) ==
    IF rhss = <<>> THEN <<>>
    ELSE <<Solve(Augment(A, Head(rhss)))>> \o SolveEach(A, Tail(rhss))

RECURSIVE Transpose(_, _)
Transpose(rows, j) ==
    IF rows = <<>> \/ j > Len(rows[1]) THEN <<>>
    ELSE <<Column(rows, j)>> \o Transpose(rows, j + 1)

Rows(z) == Len(z)

Cols(z) == IF z = <<>> THEN 0 ELSE Len(z[1])

\* The fit: the coefficients c with SUM c[k][l] * B_k(x[i]) * B_l(y[j]) = z[i][j]
\* at every node, solved along the columns of z and then along the rows.
SplineFit(x, y, z) ==
    LET d == Transpose(SolveEach(Collocation(x, x), Transpose(z, 1)), 1)
    IN  SolveEach(Collocation(y, y), d)

\* RectBivariateSpline(x, y, z): x is the axis of z's rows, y of its columns.
\* The fit fails (ValueError) when z's shape is not (x.size, y.size) or an axis
\* has no more than SplineDegree nodes.
RectBivariateSpline(x, y, z) ==
    IF Len(x) # Rows(z) \/ Len(y) # Cols(z) \/ Len(x) <= SplineDegree \/ Len(y) <= SplineDegree
    THEN [ok |-> FALSE, x |-> <<>>, y |-> <<>>, c |-> <<>>]
    ELSE [ok |-> TRUE, x |-> x, y |-> y, c |-> SplineFit(x, y, z)]

RECURSIVE RowDots(_, _)
RowDots(z, w) == IF z = <<>> THEN <<>> ELSE <<Dot(Head(z), w)>> \o RowDots(Tail(z), w)

\* spline.ev(xi, yi, dx, dy) at one point: dx, dy are the derivative orders
\* along the spline's first (rows) and second (columns) axis.
SplineEv(spl, xi, yi, dx, dy) ==
    Dot(BasisVector(spl.x, 1, xi, dx), RowDots(spl.c, BasisVector(spl.y, 1, yi, dy)))

\* --------------------------------------------------------- be.grid_sample
\* torch's grid_sample on a single-channel H x W input at one location (gx, gy)
\* of the normalised frame, mode "bilinear", padding "zeros", align_corners
\* True: -1 and 1 are the centres of the first and last sample, a neighbour
\* outside the input contributes nothing, a NaN coordinate is read as -1 and
\* an infinite one lies outside the input.
Unnormalize(g, size) ==
    IF g = NaN THEN Zero ELSE RMul(RDiv(RAdd(g, One), Num(2)), Num(size - 1))

\* input[iy, ix] (0-based), or 0 outside.
Pixel(input, iy, ix) ==
    IF iy >= 0 /\ iy < Rows(input) /\ ix >= 0 /\ ix < Cols(input)
    THEN input[iy + 1][ix + 1] ELSE Zero

\* The bilinear blend of the four neighbours of pixel location (ix, iy), whose
\* north-west neighbour is (x0, y0) and whose offsets from it are wx1 and wy1.
Bilinear(input, x0, y0, wx1, wy1) ==
    RSum(<<RMul(Pixel(input, y0, x0), RMul(RSub(One, wx1), RSub(One, wy1))),
           RMul(Pixel(input, y0, x0 + 1), RMul(wx1, RSub(One, wy1))),
           RMul(Pixel(input, y0 + 1, x0), RMul(RSub(One, wx1), wy1)),
           RMul(Pixel(input, y0 + 1, x0 + 1), RMul(wx1, wy1))>>)

SampleAt(input, ix, iy) ==
    IF ~IsFinite(ix) \/ ~IsFinite(iy) THEN Zero
    ELSE Bilinear(input, RFloor(ix), RFloor(iy),
                  RSub(ix, Num(RFloor(ix))), RSub(iy, Num(RFloor(iy))))

grid_sample(input, gx, gy) ==
    SampleAt(input, Unnormalize(gx, Cols(input)), Unnormalize(gy, Rows(input)))

\* The backward pass of grid_sample for a unit output gradient: the partials
\* of the sample with respect to gx and gy.
BilinearBackward(input, nw, ne, sw, se, wx1, wy1) ==
    <<RMul(RSum(<<RNeg(RMul(nw, RSub(One, wy1))), RMul(ne, RSub(One, wy1)),
                  RNeg(RMul(sw, wy1)), RMul(se, wy1)>>),
           Rat(Cols(input) - 1, 2)),
      RMul(RSum(<<RNeg(RMul(nw, RSub(One, wx1))), RNeg(RMul(ne, wx1)),
                  RMul(sw, RSub(One, wx1)), RMul(se, wx1)>>),
           Rat(Rows(input) - 1, 2))>>

NeighboursBackward(input, x0, y0, wx1, wy1) ==
    BilinearBackward(input, Pixel(input, y0, x0), Pixel(input, y0, x0 + 1),
                     Pixel(input, y0 + 1, x0), Pixel(input, y0 + 1, x0 + 1), wx1, wy1)

SampleBackwardAt(input, ix, iy) ==
    IF ~IsFinite(ix) \/ ~IsFinite(iy) THEN <<Zero, Zero>>
    ELSE NeighboursBackward(input, RFloor(ix), RFloor(iy),
                            RSub(ix, Num(RFloor(ix))), RSub(iy, Num(RFloor(iy))))

grid_sample_backward(input, gx, gy) ==
    SampleBackwardAt(input, Unnormalize(gx, Cols(input)), Unnormalize(gy, Rows(input)))

\* ------------------------------------------------------------ optiland.backend
\* The process-wide backend setting; "jax" stands for a value that is neither
\* of the two supported kinds.
Backends == {"numpy", "torch", "jax"}

\* An array is its container and its values.
BoxOf(b) == IF b = "torch" THEN "tensor" ELSE IF b = "numpy" THEN "ndarray" ELSE "array"

\* be.array(data) under backend b.
be_array(b, a) == [box |-> BoxOf(b), v |-> a.v]

\* be.to_numpy(a)
to_numpy(a) == [box |-> "ndarray", v |-> a.v]

\* ndarray.tolist()
tolist(a) == [box |-> "list", v |-> a.v]

RECURSIVE zeros_like(_)
zeros_like(v) == IF v = <<>> THEN <<>> ELSE <<Zero>> \o zeros_like(Tail(v))

\* be.pi; phases of a HeightProfile are held in units of pi.
Pi == One

\* The literal 1e-3 (micrometres to millimetres).
Milli == Rat(1, 1000)

\* ------------------------------------------------------------------ inputs
NodeRange == (0 - 1)..MaxCoord

\* Strictly increasing axes of integer nodes: the one-node axis, and the axes
\* from -1 to MaxCoord through any of the nodes in between (at most MaxLen).
Axes ==
    {<<Num(0 - 1)>>} \cup
    {[i \in DOMAIN s |-> Num(s[i])] :
        s \in {t \in UNION {[1..n -> NodeRange] : n \in 2..MaxLen} :
                  /\ t[1] = 0 - 1
                  /\ t[Len(t)] = MaxCoord
                  /\ \A i \in DOMAIN t : i = 1 \/ t[i - 1] < t[i]}}

\* The sampled surface: x^2 + y^3 (the tests' grid).
Surfaces == {"x2_y3"}

Surface(f, x, y) ==
    IF f = "x2_y3" THEN RAdd(RPow(x, 2), RPow(y, 3)) ELSE RAdd(x, y)

RECURSIVE SampleRow(_, _, _)
SampleRow(f, xs, y) ==
    IF xs = <<>> THEN <<>> ELSE <<Surface(f, Head(xs), y)>> \o SampleRow(f, Tail(xs), y)

\* values[i][j] = f(xs[j], ys[i]): shape (len(ys), len(xs)).
RECURSIVE SampleGrid(_, _, _)
SampleGrid(f, xs, ys) ==
    IF ys = <<>> THEN <<>> ELSE <<SampleRow(f, xs, Head(ys))>> \o SampleGrid(f, xs, Tail(ys))

\* A grid of the right shape, or one of shape (len(xs), len(ys)).
GridShapes == {"rows_y", "rows_x"}

InputGrid(f, shape, xs, ys) ==
    IF shape = "rows_y" THEN SampleGrid(f, xs, ys) ELSE SampleGrid(f, ys, xs)

\* Materials: a dispersive one with n(wavelength) = 1 + 1 / (wavelength + 1),
\* which is the tests' n = 1.5 at wavelength 1.
Materials == {"dispersive"}

Wavelengths == 1..MaxWavelength

\* material.n(wavelength)
MaterialN(m, wl) == RAdd(One, Rat(1, wl + 1))

\* Coordinates of the queries off the nodes.
QueryCoords == {Zero, Rat(1, 2)}


\* ---------------------------------------------------------- GridInterpolator
\* An interpolator under construction or built.  _height_fn and _grad_fn name
\* the closures a setup routine binds; the fields of the strategy that was not
\* set up stay empty.
NewInterpolator(b, x_coords, y_coords, grid) ==
    [backend |-> b, x_coords |-> x_coords, y_coords |-> y_coords, grid |-> grid,
     _spline |-> [ok |-> FALSE, x |-> <<>>, y |-> <<>>, c |-> <<>>],
     _xmin |-> Zero, _xmax |-> Zero, _ymin |-> Zero, _ymax |-> Zero,
     _grid_4d |-> <<>>, _dx |-> Zero, _dy |-> Zero,
     _height_fn |-> "unset", _grad_fn |-> "unset"]

\* _setup_numpy: fits the spline with y as the axis of the rows.
\* The closures _setup_numpy binds over `spline`, unless the fit raised.
BindSpline(self, spline) ==
    IF ~spline.ok THEN [err |-> "ValueError: spline fit", self |-> self]
    ELSE [err |-> "none",
          self |-> [self EXCEPT !._spline = spline,
                                !._height_fn = "numpy.height_fn",
                                !._grad_fn = "numpy.grad_fn"]]

setup_numpy(self) ==
    BindSpline(self, RectBivariateSpline(to_numpy(self.y_coords).v, to_numpy(self.x_coords).v,
                                         to_numpy(self.grid).v))

\* _setup_torch with _xmax read from x_coords[0].
setup_torch_xmax_from_first(self) ==
    IF Len(self.x_coords.v) < 2 \/ Len(self.y_coords.v) < 2
    THEN [err |-> "IndexError", self |-> self]
    ELSE [err |-> "none",
          self |-> [self EXCEPT
                      !._xmin = self.x_coords.v[1],
                      !._xmax = self.x_coords.v[1],
                      !._ymin = self.y_coords.v[1],
                      !._ymax = self.y_coords.v[Len(self.y_coords.v)],
                      !._grid_4d = self.grid.v,
                      !._dx = RSub(self.x_coords.v[2], self.x_coords.v[1]),
                      !._dy = RSub(self.y_coords.v[2], self.y_coords.v[1]),
                      !._height_fn = "torch.height_fn",
                      !._grad_fn = "torch.grad_fn"]]

\* _setup_torch: the axis bounds and the grid as a sampling input.
setup_torch(self) ==
    IF Len(self.x_coords.v) < 2 \/ Len(self.y_coords.v) < 2
    THEN [err |-> "IndexError", self |-> self]
    ELSE [err |-> "none",
          self |-> [self EXCEPT
                      !._xmin = self.x_coords.v[1],
                      !._xmax = self.x_coords.v[Len(self.x_coords.v)],
                      !._ymin = self.y_coords.v[1],
                      !._ymax = self.y_coords.v[Len(self.y_coords.v)],
                      !._grid_4d = self.grid.v,
                      !._dx = RSub(self.x_coords.v[2], self.x_coords.v[1]),
                      !._dy = RSub(self.y_coords.v[2], self.y_coords.v[1]),
                      !._height_fn = "torch.height_fn",
                      !._grad_fn = "torch.grad_fn"]]

\* The outcome r of setup routine `setup`.
Ran(setup, r) == [err |-> r.err, self |-> r.self, setup |-> setup]

\* GridInterpolator.__init__ with _setup_numpy as the default of the lookup.
GridInterpolator_default_setup(b, x_coords, y_coords, grid) ==
    IF b = "torch"
    THEN Ran("torch", setup_torch(NewInterpolator(b, x_coords, y_coords, grid)))
    ELSE Ran("numpy", setup_numpy(NewInterpolator(b, x_coords, y_coords, grid)))

\* GridInterpolator.__init__ under active backend b: the interpolator, the
\* error raised ("none" when it is built) and the setup routine that ran.
GridInterpolator(b, x_coords, y_coords, grid) ==
    IF b = "numpy"
    THEN Ran("numpy", setup_numpy(NewInterpolator(b, x_coords, y_coords, grid)))
    ELSE IF b = "torch"
    THEN Ran("torch", setup_torch(NewInterpolator(b, x_coords, y_coords, grid)))
    ELSE [err |-> "ValueError: Unsupported backend",
          self |-> NewInterpolator(b, x_coords, y_coords, grid), setup |-> "none"]

\* numpy height_fn at one point: spline.ev(y, x).
numpy_height_fn(self, x, y) == SplineEv(self._spline, y, x, 0, 0)

\* numpy grad_fn at one point: (ev(y, x, dy=1), ev(y, x, dx=1)).
numpy_grad_fn(self, x, y) ==
    <<SplineEv(self._spline, y, x, 0, 1), SplineEv(self._spline, y, x, 1, 0)>>

\* _normalize_and_grid at one point.
normalize_and_grid(self, x, y) ==
    <<RSub(RDiv(RMul(Num(2), RSub(x, self._xmin)), RSub(self._xmax, self._xmin)), One),
      RSub(RDiv(RMul(Num(2), RSub(y, self._ymin)), RSub(self._ymax, self._ymin)), One)>>

\* F.grid_sample(self._grid_4d, grid) at the one location `grid`.
SampleGridAt(input, grid) == grid_sample(input, grid[1], grid[2])

\* torch height_fn at one point.
torch_height_fn(self, x, y) ==
    SampleGridAt(self._grid_4d, normalize_and_grid(self, x, y))

SampleGridBackwardAt(input, grid) == grid_sample_backward(input, grid[1], grid[2])

\* The partials d of the sample in the normalised frame, taken back through
\* _normalize_and_grid.
ChainRule(self, d) ==
    <<RMul(d[1], RDiv(Num(2), RSub(self._xmax, self._xmin))),
      RMul(d[2], RDiv(Num(2), RSub(self._ymax, self._ymin)))>>

\* grad_fn returning the partials in the normalised frame.
torch_grad_fn_normalised(self, x, y) ==
    SampleGridBackwardAt(self._grid_4d, normalize_and_grid(self, x, y))

\* torch grad_fn at one point: autograd through height_fn, that is the
\* backward pass of grid_sample times the slope of the normalisation.
torch_grad_fn(self, x, y) ==
    ChainRule(self, SampleGridBackwardAt(self._grid_4d, normalize_and_grid(self, x, y)))

\* height(x, y) choosing the strategy by the backend active at the call.
height_at_active_backend(self, x, y) ==
    IF backend = "numpy" THEN numpy_height_fn(self, x, y)
    ELSE torch_height_fn(self, x, y)

\* height(x, y) at one point: the closure bound at construction.
height_at(self, x, y) ==
    IF self._height_fn = "numpy.height_fn" THEN numpy_height_fn(self, x, y)
    ELSE torch_height_fn(self, x, y)

\* gradient(x, y) at one point.
gradient_at(self, x, y) ==
    IF self._grad_fn = "numpy.grad_fn" THEN numpy_grad_fn(self, x, y)
    ELSE torch_grad_fn(self, x, y)

\* height(x, y) on arrays of equal shape.
RECURSIVE height(_, _, _)
height(self, x, y) ==
    IF x = <<>> THEN <<>>
    ELSE <<height_at(self, Head(x), Head(y))>> \o height(self, Tail(x), Tail(y))

RECURSIVE GradientPairs(_, _, _)
GradientPairs(self, x, y) ==
    IF x = <<>> THEN <<>>
    ELSE <<gradient_at(self, Head(x), Head(y))>> \o GradientPairs(self, Tail(x), Tail(y))

\* A sequence of pairs as the pair of sequences.
Unzip(pairs) == <<Column(pairs, 1), Column(pairs, 2)>>

\* gradient(x, y) on arrays of equal shape: the pair (dh/dx, dh/dy) of arrays.
gradient(self, x, y) == Unzip(GradientPairs(self, x, y))

\* ------------------------------------------------------------------ profiles
NoArray == [box |-> "none", v |-> <<>>]

NoMaterial == [live |-> FALSE, name |-> "none"]

NoProfile ==
    [kind |-> "none", backend |-> "none", x_coords |-> NoArray, y_coords |-> NoArray,
     data |-> NoArray, material |-> NoMaterial,
     _interp |-> NewInterpolator("none", NoArray, NoArray, NoArray)]

\* self._interp = GridInterpolator(...): the profile `self` holding the
\* interpolator of outcome `interp`, with the constructor's error and setup.
Holding(interp, self) ==
    [err |-> interp.err, setup |-> interp.setup,
     self |-> [self EXCEPT !._interp = interp.self]]

\* GridPhaseProfile.__init__ under active backend b.
GridPhaseProfile(b, x_coords, y_coords, phase_grid) ==
    Holding(GridInterpolator(b, x_coords, y_coords, phase_grid),
            [kind |-> "grid", backend |-> b, x_coords |-> x_coords,
             y_coords |-> y_coords, data |-> phase_grid,
             material |-> NoMaterial, _interp |-> NoProfile._interp])

\* HeightProfile.__init__ under active backend b.
HeightProfile(b, x_coords, y_coords, height_map, material) ==
    Holding(GridInterpolator(b, x_coords, y_coords, height_map),
            [kind |-> "height_profile", backend |-> b, x_coords |-> x_coords,
             y_coords |-> y_coords, data |-> height_map,
             material |-> material, _interp |-> NoProfile._interp])

\* get_phase scaled by the wavelength when one is given.
GridPhaseProfile_get_phase_chromatic(self, x, y, wavelength) ==
    IF wavelength = 0 THEN height(self._interp, x, y)
    ELSE VScale(height(self._interp, x, y), Rat(1, wavelength))

\* GridPhaseProfile.get_phase
GridPhaseProfile_get_phase(self, x, y, wavelength) == height(self._interp, x, y)

\* (g[0], g[1], be.zeros_like(x))
WithZeroZ(g, x) == <<g[1], g[2], zeros_like(x)>>

\* (g[0] * factor, g[1] * factor, be.zeros_like(x))
ScaledWithZeroZ(g, factor, x) == <<VScale(g[1], factor), VScale(g[2], factor), zeros_like(x)>>

\* GridPhaseProfile.get_gradient
GridPhaseProfile_get_gradient(self, x, y, wavelength) ==
    WithZeroZ(gradient(self._interp, x, y), x)

\* get_paraxial_gradient returning the x-partial.
GridPhaseProfile_get_paraxial_gradient_dx(self, y, wavelength) ==
    LET x0 == zeros_like(y) IN gradient(self._interp, x0, y)[1]

\* GridPhaseProfile.get_paraxial_gradient
GridPhaseProfile_get_paraxial_gradient(self, y, wavelength) ==
    LET x0 == zeros_like(y) IN gradient(self._interp, x0, y)[2]

\* get_phase with n in place of n - 1.0.
HeightProfile_get_phase_index(self, x, y, wavelength) ==
    LET h == height(self._interp, x, y)
        n == MaterialN(self.material, wavelength)
    IN  VScale(h, RMul(RDiv(RMul(Num(2), Pi), RMul(Num(wavelength), Milli)), n))

\* HeightProfile.get_phase: 2 * be.pi / (wavelength * 1e-3) * (n - 1.0) * h,
\* left to right.
HeightProfile_get_phase(self, x, y, wavelength) ==
    LET h == height(self._interp, x, y)
        n == MaterialN(self.material, wavelength)
    IN  VScale(h, RMul(RDiv(RMul(Num(2), Pi), RMul(Num(wavelength), Milli)),
                       RSub(n, One)))

\* get_gradient with the wavelength left in micrometres.
HeightProfile_get_gradient_micrometres(self, x, y, wavelength) ==
    ScaledWithZeroZ(gradient(self._interp, x, y),
                    RMul(RDiv(RMul(Num(2), Pi), Num(wavelength)),
                         RSub(MaterialN(self.material, wavelength), One)),
                    x)

\* HeightProfile.get_gradient
HeightProfile_get_gradient(self, x, y, wavelength) ==
    ScaledWithZeroZ(gradient(self._interp, x, y),
                    RMul(RDiv(RMul(Num(2), Pi), RMul(Num(wavelength), Milli)),
                         RSub(MaterialN(self.material, wavelength), One)),
                    x)

\* HeightProfile.get_paraxial_gradient
HeightProfile_get_paraxial_gradient(self, y, wavelength) ==
    LET x0 == zeros_like(y)
        dh_dy == gradient(self._interp, x0, y)[2]
        n == MaterialN(self.material, wavelength)
    IN  VScale(dh_dy, RMul(RDiv(RMul(Num(2), Pi), RMul(Num(wavelength), Milli)),
                           RSub(n, One)))

NoDict ==
    [phase_type |-> "none", x_coords |-> NoArray, y_coords |-> NoArray,
     phase_grid |-> NoArray, height_map |-> NoArray, material |-> "none"]

\* GridPhaseProfile.to_dict; the base class supplies phase_type.  A key the
\* mapping does not hold is NoArray ("none" for material).
GridPhaseProfile_to_dict(self) ==
    [NoDict EXCEPT !.phase_type = "grid",
                   !.x_coords = tolist(to_numpy(self.x_coords)),
                   !.y_coords = tolist(to_numpy(self.y_coords)),
                   !.phase_grid = tolist(to_numpy(self.data))]

\* HeightProfile.to_dict
HeightProfile_to_dict(self) ==
    [NoDict EXCEPT !.phase_type = "height_profile",
                   !.x_coords = tolist(to_numpy(self.x_coords)),
                   !.y_coords = tolist(to_numpy(self.y_coords)),
                   !.height_map = tolist(to_numpy(self.data)),
                   !.material = self.material.name]

KeyError == [err |-> "KeyError", setup |-> "none", self |-> NoProfile]

\* from_dict reading x_coords and y_coords from each other's key.
GridPhaseProfile_from_dict_swapped(b, data) ==
    IF data.phase_grid = NoArray THEN KeyError
    ELSE GridPhaseProfile(b, be_array(b, data.y_coords), be_array(b, data.x_coords),
                          be_array(b, data.phase_grid))

\* GridPhaseProfile.from_dict under active backend b.
GridPhaseProfile_from_dict(b, data) ==
    IF data.phase_grid = NoArray THEN KeyError
    ELSE GridPhaseProfile(b, be_array(b, data.x_coords), be_array(b, data.y_coords),
                          be_array(b, data.phase_grid))

\* HeightProfile.from_dict under active backend b: the material is the
\* serialised name, not a material object.
HeightProfile_from_dict(b, data) ==
    IF data.height_map = NoArray THEN KeyError
    ELSE HeightProfile(b, be_array(b, data.x_coords), be_array(b, data.y_coords),
                       be_array(b, data.height_map),
                       [live |-> FALSE, name |-> data.material])

\* ---------------------------------------------------------------- MTFvsField
\* The longest list of frequencies a caller passes.
MaxFreqCount == 6

\* The most wavelengths an optical system or a wavelength list holds.
MaxWlCount == 4

\* The largest num_fields a caller passes.
MaxFields == 2

MAX_FREQUENCIES == 5

MAX_WAVELENGTHS == 3

\* The k-th wavelength added to an optical system, in hundredths of a micron.
OpticWavelength(k) == 45 + 5 * k

\* An optical system as far as the analysis reads it: its wavelengths and
\* the position of the primary one.
NewOptic == [wavelengths |-> <<OpticWavelength(1)>>, primary |-> 1]

\* The frequency lists of the callers: n frequencies, ascending or descending.
FrequencyLists ==
    {[k \in 1..n |-> 10 * k] : n \in 0..MaxFreqCount}
        \cup {[k \in 1..n |-> 10 * (n + 1 - k)] : n \in 2..MaxFreqCount}

\* The wavelengths argument: "all", "primary" or a list of values.
WavelengthArgs ==
    {[kind |-> "all", list |-> <<>>], [kind |-> "primary", list |-> <<>>]}
        \cup {[kind |-> "list", list |-> [k \in 1..n |-> OpticWavelength(k)]] :
                n \in {1, MaxWlCount}}

NumRays == {16, 128}

\* optiland.utils.resolve_wavelengths(optic, wavelengths)
resolve_wavelengths(o, wavelengths) ==
    IF wavelengths.kind = "all" THEN o.wavelengths
    ELSE IF wavelengths.kind = "primary" THEN <<o.wavelengths[o.primary]>>
    ELSE wavelengths.list

\* len(wavelengths) of the argument as passed: "all" has 3 characters and
\* "primary" 7.
RawLen(wavelengths) ==
    IF wavelengths.kind = "all" THEN 3
    ELSE IF wavelengths.kind = "primary" THEN 7
    ELSE Len(wavelengths.list)

\* _check_limits measuring the wavelengths argument itself.
check_limits_unresolved(frequencies, override_limits, wavelengths, o) ==
    IF override_limits THEN "none"
    ELSE IF Len(frequencies) > MAX_FREQUENCIES THEN "ValueError: Number of frequencies"
    ELSE IF RawLen(wavelengths) > MAX_WAVELENGTHS THEN "ValueError: Number of wavelengths"
    ELSE "none"

\* MTFvsField._check_limits on self.frequencies: the error raised, or "none".
check_limits(frequencies, override_limits, wavelengths, o) ==
    IF override_limits THEN "none"
    ELSE IF Len(frequencies) > MAX_FREQUENCIES THEN "ValueError: Number of frequencies"
    ELSE IF Len(resolve_wavelengths(o, wavelengths)) > MAX_WAVELENGTHS
    THEN "ValueError: Number of wavelengths"
    ELSE "none"

\* be.linspace(0.0, 1.0, num_fields) as the fields (0.0, Hy).
Fields(num_fields) ==
    [k \in 1..num_fields |->
        <<Zero, IF num_fields = 1 THEN Zero ELSE Rat(k - 1, num_fields - 1)>>]

\* freqs_to_calc: (freq, 0.0) then (0.0, freq) for each frequency in turn.
RECURSIVE FreqsToCalc(_)
FreqsToCalc(frequencies) ==
    IF frequencies = <<>> THEN <<>>
    ELSE <<<<Head(frequencies), 0>>, <<0, Head(frequencies)>>>>
            \o FreqsToCalc(Tail(frequencies))

\* SampledMTF(optic, field, wavelength, num_rays, ...).calculate_mtf(freqs):
\* one value per frequency pair, named by what it is the MTF of.
calculate_mtf(o, field, wl, num_rays, freqs) ==
    [k \in 1..Len(freqs) |->
        [optic |-> o, field |-> field, wavelength |-> wl, num_rays |-> num_rays,
         freq |-> freqs[k]]]

\* The tangential or sagittal list of frequency i_freq after the loop over
\* the fields: mtfs[2 * i_freq + offset] of each field's calculation, i_freq
\* counted from 0.
RECURSIVE Collect(_, _, _, _, _, _)
Collect(self, wl, fields, freqs_to_calc, i_freq, offset) ==
    IF fields = <<>> THEN <<>>
    ELSE LET mtfs == calculate_mtf(self.optic, Head(fields), wl, self.num_rays,
                                   freqs_to_calc)
         IN  <<mtfs[2 * i_freq + offset + 1]>>
                \o Collect(self, wl, Tail(fields), freqs_to_calc, i_freq, offset)

\* _generate_data taking the sagittal values from result 2 * i_freq and the
\* tangential ones from result 2 * i_freq + 1.
generate_data_swapped(self) ==
    LET fields == Fields(self.num_fields)
        freqs_to_calc == FreqsToCalc(self.frequencies)
    IN  [w \in 1..Len(self.wavelengths) |->
            [f \in 1..Len(self.frequencies) |->
                [tangential |-> Collect(self, self.wavelengths[w], fields,
                                        freqs_to_calc, f - 1, 1),
                 sagittal |-> Collect(self, self.wavelengths[w], fields,
                                      freqs_to_calc, f - 1, 0)]]]

\* MTFvsField._generate_data
generate_data(self) ==
    LET fields == Fields(self.num_fields)
        freqs_to_calc == FreqsToCalc(self.frequencies)
    IN  [w \in 1..Len(self.wavelengths) |->
            [f \in 1..Len(self.frequencies) |->
                [tangential |-> Collect(self, self.wavelengths[w], fields,
                                        freqs_to_calc, f - 1, 0),
                 sagittal |-> Collect(self, self.wavelengths[w], fields,
                                      freqs_to_calc, f - 1, 1)]]]

\* MTFvsField.__init__: the instance as far as it was set up, the error
\* raised ("none" when it is built) and the number of SampledMTF calculations.
\* BaseAnalysis.__init__ sets optic and wavelengths and stores _generate_data().
MTFvsField(o, frequencies, num_fields, wavelengths, num_rays, override_limits) ==
    LET self == [frequencies |-> frequencies, num_fields |-> num_fields,
                 num_rays |-> num_rays, optic |-> NewOptic, wavelengths |-> <<>>,
                 data |-> <<>>]
        err == check_limits(self.frequencies, override_limits, wavelengths, o)
        based == [self EXCEPT !.optic = o,
                              !.wavelengths = resolve_wavelengths(o, wavelengths)]
    IN  IF err # "none" THEN [err |-> err, self |-> self, sampled |-> 0]
        ELSE [err |-> "none",
              self |-> [based EXCEPT !.data = generate_data(based)],
              sampled |-> Len(based.wavelengths) * num_fields]

NoArgs ==
    [optic |-> NewOptic, frequencies |-> <<>>, num_fields |-> 0,
     wavelengths |-> [kind |-> "all", list |-> <<>>], num_rays |-> 0,
     override_limits |-> FALSE]

NoAnalysis ==
    [called |-> FALSE, args |-> NoArgs, err |-> "none", sampled |-> 0,
     self |-> [frequencies |-> <<>>, num_fields |-> 0, num_rays |-> 0,
               optic |-> NewOptic, wavelengths |-> <<>>, data |-> <<>>]]

\* No grad_fn is running and none has run: the locals are unbound (0), and
\* `before` holds the caller's tensors as they were when the call began.
NoCall ==
    [pc |-> "idle", n |-> 0, x |-> 0, y |-> 0, x_req |-> 0, y_req |-> 0, phi |-> 0,
     grad_x |-> 0, grad_y |-> 0, before |-> {}]

\* ------------------------------------------------------------- state machine
\* The variables of the MTF analysis and of the trace of grad_fn.
mtf_vars == <<optic, analysis>>

grad_vars == <<tensors, call>>

vars == <<backend, profile, built, query, ret, restored, optic, analysis, tensors, call>>

NoBuilt == [backend |-> "none", err |-> "none", setup |-> "none"]

NoQuery == [x |-> <<>>, y |-> <<>>]

NoRet == [op |-> "none", wavelength |-> 0, val |-> <<>>, data |-> NoDict]

NoRestored == [cls |-> "none", backend |-> "none", err |-> "none", setup |-> "none",
               self |-> NoProfile]

Kinds == {"grid", "height_profile"}

\* wavelength = None, which GridPhaseProfile's methods default to.
NoWavelength == 0

Init ==
    /\ backend = "numpy"
    /\ profile = NoProfile
    /\ built = NoBuilt
    /\ query = NoQuery
    /\ ret = NoRet
    /\ restored = NoRestored
    /\ optic = NewOptic
    /\ analysis = NoAnalysis
    /\ tensors = {}
    /\ call = NoCall

\* be.set_backend(b)
SetBackend(b) ==
    /\ backend' = b
    /\ restored' = NoRestored
    /\ UNCHANGED <<profile, built, query, ret, mtf_vars, grad_vars>>

\* The constructor call of a profile of the given kind.
NewProfile(kind, x, y, g, material) ==
    IF kind = "grid" THEN GridPhaseProfile(backend, x, y, g)
    ELSE HeightProfile(backend, x, y, g, material)

\* The caller's name is bound to the profile a constructor call of outcome r
\* returned, if it returned one.
Constructed(r) ==
    /\ profile' = IF r.err = "none" THEN r.self ELSE NoProfile
    /\ built' = [backend |-> backend, err |-> r.err, setup |-> r.setup]

\* GridPhaseProfile(x, y, grid) or HeightProfile(x, y, grid, material) on
\* arrays of the active backend; a constructor that raises leaves no profile.
Construct ==
    /\ profile = NoProfile
    /\ \E kind \in Kinds, xs \in Axes, ys \in Axes, f \in Surfaces, shape \in GridShapes,
          m \in Materials :
        /\ Len(xs) = Len(ys) => shape = "rows_y"
        /\ Constructed(NewProfile(kind, [box |-> BoxOf(backend), v |-> xs],
                                  [box |-> BoxOf(backend), v |-> ys],
                                  [box |-> BoxOf(backend), v |-> InputGrid(f, shape, xs, ys)],
                                  [live |-> TRUE, name |-> m]))
    /\ query' = NoQuery
    /\ ret' = NoRet
    /\ restored' = NoRestored
    /\ UNCHANGED <<backend, mtf_vars, grad_vars>>

\* The profile is no longer referenced.
Discard ==
    /\ profile # NoProfile
    /\ profile' = NoProfile
    /\ built' = NoBuilt
    /\ query' = NoQuery
    /\ ret' = NoRet
    /\ restored' = NoRestored
    /\ UNCHANGED <<backend, mtf_vars, grad_vars>>

\* The caller builds query arrays: n points up the line x = x0 from (x0, y0)
\* in steps of 1/2 (the tests' y_vals).
SetQuery(x0, y0, n) ==
    /\ profile # NoProfile
    /\ query' = [x |-> [k \in 1..n |-> x0],
                 y |-> [k \in 1..n |-> RAdd(y0, Rat(k - 1, 2))]]
    /\ ret' = NoRet
    /\ restored' = NoRestored
    /\ UNCHANGED <<backend, profile, built, mtf_vars, grad_vars>>

\* The caller queries node (i, j) of the profile's own grid, as the tests do:
\* x = [x_coords[j]], y = [y_coords[i]].
SetQueryNode(i, j) ==
    /\ profile # NoProfile
    /\ i \in DOMAIN profile.y_coords.v
    /\ j \in DOMAIN profile.x_coords.v
    /\ query' = [x |-> <<profile.x_coords.v[j]>>, y |-> <<profile.y_coords.v[i]>>]
    /\ ret' = NoRet
    /\ restored' = NoRestored
    /\ UNCHANGED <<backend, profile, built, mtf_vars, grad_vars>>

Returns(op, wl, val) ==
    /\ ret' = [op |-> op, wavelength |-> wl, val |-> val, data |-> NoDict]
    /\ restored' = NoRestored
    /\ UNCHANGED <<backend, profile, built, query, mtf_vars, grad_vars>>

\* profile._interp.height(x, y)
Height ==
    /\ profile # NoProfile /\ query # NoQuery
    /\ Returns("height", NoWavelength, <<height(profile._interp, query.x, query.y)>>)

\* profile._interp.gradient(x, y)
Gradient ==
    /\ profile # NoProfile /\ query # NoQuery
    /\ Returns("gradient", NoWavelength, gradient(profile._interp, query.x, query.y))

\* profile.get_phase(x, y, wavelength)
GetPhase(wl) ==
    /\ profile # NoProfile /\ query # NoQuery
    /\ profile.kind = "height_profile" => wl # NoWavelength
    /\ Returns("get_phase", wl,
               <<IF profile.kind = "grid"
                 THEN GridPhaseProfile_get_phase(profile, query.x, query.y, wl)
                 ELSE HeightProfile_get_phase(profile, query.x, query.y, wl)>>)

\* profile.get_gradient(x, y, wavelength)
GetGradient(wl) ==
    /\ profile # NoProfile /\ query # NoQuery
    /\ profile.kind = "height_profile" => wl # NoWavelength
    /\ Returns("get_gradient", wl,
               IF profile.kind = "grid"
               THEN GridPhaseProfile_get_gradient(profile, query.x, query.y, wl)
               ELSE HeightProfile_get_gradient(profile, query.x, query.y, wl))

\* profile.get_paraxial_gradient(y, wavelength)
GetParaxialGradient(wl) ==
    /\ profile # NoProfile /\ query # NoQuery
    /\ profile.kind = "height_profile" => wl # NoWavelength
    /\ Returns("get_paraxial_gradient", wl,
               <<IF profile.kind = "grid"
                 THEN GridPhaseProfile_get_paraxial_gradient(profile, query.y, wl)
                 ELSE HeightProfile_get_paraxial_gradient(profile, query.y, wl)>>)

\* to_dict converting the profile's own arrays to lists in place.
ToDict_in_place ==
    /\ profile # NoProfile
    /\ ret' = [op |-> "to_dict", wavelength |-> NoWavelength, val |-> <<>>,
               data |-> IF profile.kind = "grid" THEN GridPhaseProfile_to_dict(profile)
                        ELSE HeightProfile_to_dict(profile)]
    /\ profile' = [profile EXCEPT !.x_coords = tolist(to_numpy(@)),
                                  !.y_coords = tolist(to_numpy(@)),
                                  !.data = tolist(to_numpy(@))]
    /\ restored' = NoRestored
    /\ UNCHANGED <<backend, built, query, mtf_vars, grad_vars>>

\* profile.to_dict()
ToDict ==
    /\ profile # NoProfile
    /\ ret' = [op |-> "to_dict", wavelength |-> NoWavelength, val |-> <<>>,
               data |-> IF profile.kind = "grid" THEN GridPhaseProfile_to_dict(profile)
                        ELSE HeightProfile_to_dict(profile)]
    /\ restored' = NoRestored
    /\ UNCHANGED <<backend, profile, built, query, mtf_vars, grad_vars>>

\* What the caller holds after a from_dict call of outcome r.
Restored(cls, r) ==
    [cls |-> cls, backend |-> backend, err |-> r.err, setup |-> r.setup,
     self |-> IF r.err = "none" THEN r.self ELSE NoProfile]

\* cls.from_dict(data) on the mapping to_dict returned, under the backend
\* active now.
FromDict(cls) ==
    /\ ret.op = "to_dict"
    /\ restored' = Restored(cls, IF cls = "grid" THEN GridPhaseProfile_from_dict(backend, ret.data)
                                 ELSE HeightProfile_from_dict(backend, ret.data))
    /\ UNCHANGED <<backend, profile, built, query, ret, mtf_vars, grad_vars>>

Next ==
    \/ \E b \in Backends : SetBackend(b)
    \/ Construct
    \/ Discard
    \/ \E x0 \in QueryCoords, y0 \in QueryCoords, n \in 1..MaxQuery : SetQuery(x0, y0, n)
    \/ \E i \in 1..MaxLen, j \in 1..MaxLen : SetQueryNode(i, j)
    \/ Height
    \/ Gradient
    \/ \E wl \in {NoWavelength} \cup Wavelengths : GetPhase(wl)
    \/ \E wl \in {NoWavelength} \cup Wavelengths : GetGradient(wl)
    \/ \E wl \in {NoWavelength} \cup Wavelengths : GetParaxialGradient(wl)
    \/ ToDict
    \/ \E cls \in Kinds : FromDict(cls)

Spec == Init /\ [][Next]_vars

\* ------------------------------------------- the analysis as a state machine
phase_vars == <<backend, profile, built, query, ret, restored>>

MtfInit ==
    /\ backend = "numpy"
    /\ profile = NoProfile
    /\ built = NoBuilt
    /\ query = NoQuery
    /\ ret = NoRet
    /\ restored = NoRestored
    /\ optic = NewOptic
    /\ analysis = NoAnalysis
    /\ tensors = {}
    /\ call = NoCall

\* optic.add_wavelength(value, is_primary).  A behaviour follows one optical
\* system up to the analysis made of it: the system is set up first, then
\* analysed once.
AddWavelength(is_primary) ==
    /\ ~analysis.called
    /\ Len(optic.wavelengths) < MaxWlCount
    /\ optic' = [wavelengths |-> Append(optic.wavelengths,
                                        OpticWavelength(Len(optic.wavelengths) + 1)),
                 primary |-> IF is_primary THEN Len(optic.wavelengths) + 1
                             ELSE optic.primary]
    /\ UNCHANGED <<analysis, phase_vars, grad_vars>>

\* MTFvsField(optic, frequencies, num_fields, wavelengths, num_rays,
\* override_limits)
Analyse(frequencies, num_fields, wavelengths, num_rays, override_limits) ==
    /\ ~analysis.called
    /\ LET r == MTFvsField(optic, frequencies, num_fields, wavelengths, num_rays,
                           override_limits)
       IN  analysis' = [called |-> TRUE,
                        args |-> [optic |-> optic, frequencies |-> frequencies,
                                  num_fields |-> num_fields, wavelengths |-> wavelengths,
                                  num_rays |-> num_rays,
                                  override_limits |-> override_limits],
                        err |-> r.err, sampled |-> r.sampled, self |-> r.self]
    /\ UNCHANGED <<optic, phase_vars, grad_vars>>

MtfNext ==
    \/ \E is_primary \in BOOLEAN : AddWavelength(is_primary)
    \/ \E frequencies \in FrequencyLists, num_fields \in 1..MaxFields,
          wavelengths \in WavelengthArgs, num_rays \in NumRays,
          override_limits \in BOOLEAN :
        Analyse(frequencies, num_fields, wavelengths, num_rays, override_limits)

MtfSpec == MtfInit /\ [][MtfNext]_vars

\* ----------------------------------------- the torch grad_fn, step by step
\* The most gradient() calls a caller makes on one pair of arrays.
MaxCalls == 2

\* A torch tensor: its identity, its values, its requires_grad flag, the
\* tensors its autograd graph leads back to (none for a leaf), whether that
\* graph still holds its saved buffers, and who holds the tensor: the caller
\* or a local of the running grad_fn.
Tensor(id, data, requires_grad, refs, saved, owner) ==
    [id |-> id, data |-> data, requires_grad |-> requires_grad, refs |-> refs,
     saved |-> saved, owner |-> owner]

TensorAt(id) == CHOOSE t \in tensors : t.id = id

\* The identity of the next tensor allocated.
FreshId ==
    1 + (CHOOSE m \in {t.id : t \in tensors} \cup {0} : \A t \in tensors : t.id <= m)

\* The identities reachable from `ids` through autograd graphs.
RECURSIVE Reachable(_)
Reachable(ids) ==
    LET more == ids \cup UNION {t.refs : t \in {u \in tensors : u.id \in ids}}
    IN  IF more = ids THEN ids ELSE Reachable(more)

GradInit ==
    /\ backend = "torch"
    /\ profile = NoProfile
    /\ built = NoBuilt
    /\ query = NoQuery
    /\ ret = NoRet
    /\ restored = NoRestored
    /\ optic = NewOptic
    /\ analysis = NoAnalysis
    /\ tensors = {}
    /\ call = NoCall

\* The caller makes the query tensors x and y (n points up the line x = x0
\* from (x0, y0)), with or without requires_grad, and lets go of every tensor
\* it held before.
CallerArrays(x0, y0, n, rx, ry) ==
    /\ profile # NoProfile
    /\ call.pc = "idle"
    /\ tensors' = {Tensor(1, [k \in 1..n |-> x0], rx, {}, FALSE, "caller"),
                   Tensor(2, [k \in 1..n |-> RAdd(y0, Rat(k - 1, 2))], ry, {}, FALSE,
                          "caller")}
    /\ call' = NoCall
    /\ UNCHANGED <<phase_vars, mtf_vars>>

\* interp.gradient(x, y): the caller has let go of the result of the call
\* before, and grad_fn is entered with x and y bound to the caller's tensors.
GradientCall ==
    /\ profile # NoProfile
    /\ call.pc = "idle"
    /\ call.n < MaxCalls
    /\ {1, 2} \subseteq {t.id : t \in tensors}
    /\ tensors' = {t \in tensors : t.id \in {1, 2}}
    /\ call' = [NoCall EXCEPT !.pc = "array", !.n = call.n + 1, !.x = 1, !.y = 2,
                              !.before = {t \in tensors : t.id \in {1, 2}}]
    /\ UNCHANGED <<phase_vars, mtf_vars>>

\* x = be.array(x); y = be.array(y): a tensor is returned as it is.
BeArray ==
    /\ call.pc = "array"
    /\ call' = [call EXCEPT !.pc = "detach"]
    /\ UNCHANGED <<tensors, phase_vars, mtf_vars>>

\* x_req = x.requires_grad_(True), on the caller's own tensors.
DetachClone_in_place ==
    /\ call.pc = "detach"
    /\ tensors' = {IF t.id \in {call.x, call.y} THEN [t EXCEPT !.requires_grad = TRUE]
                   ELSE t : t \in tensors}
    /\ call' = [call EXCEPT !.pc = "height", !.x_req = call.x, !.y_req = call.y]
    /\ UNCHANGED <<phase_vars, mtf_vars>>

\* x_req = x.detach().clone().requires_grad_(True), and y_req likewise: two
\* new leaf tensors with the values of x and y.
DetachClone ==
    /\ call.pc = "detach"
    /\ tensors' = tensors \cup
            {Tensor(FreshId, TensorAt(call.x).data, TRUE, {}, FALSE, "local"),
             Tensor(FreshId + 1, TensorAt(call.y).data, TRUE, {}, FALSE, "local")}
    /\ call' = [call EXCEPT !.pc = "height", !.x_req = FreshId, !.y_req = FreshId + 1]
    /\ UNCHANGED <<phase_vars, mtf_vars>>

\* phi = height_fn(x_req, y_req): a tensor whose graph leads back to x_req
\* and y_req.
HeightFn ==
    /\ call.pc = "height"
    /\ tensors' = tensors \cup
            {Tensor(FreshId,
                    height(profile._interp, TensorAt(call.x_req).data,
                           TensorAt(call.y_req).data),
                    TRUE, {call.x_req, call.y_req}, TRUE, "local")}
    /\ call' = [call EXCEPT !.pc = "autograd", !.phi = FreshId]
    /\ UNCHANGED <<phase_vars, mtf_vars>>

\* The pair autograd returns for phi with respect to x_req and y_req.
GradOfPhi ==
    gradient(profile._interp, TensorAt(call.x_req).data, TensorAt(call.y_req).data)

\* grad_x, grad_y = be.autograd.grad(phi, (x_req, y_req), ..., create_graph=
\* False, retain_graph=False): two new tensors without a graph; the graph
\* of phi gives up its saved buffers, and no .grad is accumulated.
AutogradGrad ==
    /\ call.pc = "autograd"
    /\ tensors' = {IF t.id = call.phi THEN [t EXCEPT !.saved = FALSE] ELSE t : t \in tensors}
            \cup {Tensor(FreshId, GradOfPhi[1], FALSE, {}, FALSE, "local"),
                  Tensor(FreshId + 1, GradOfPhi[2], FALSE, {}, FALSE, "local")}
    /\ call' = [call EXCEPT !.pc = "return", !.grad_x = FreshId, !.grad_y = FreshId + 1]
    /\ UNCHANGED <<phase_vars, mtf_vars>>

\* return grad_x, grad_y: the caller holds the two results, the locals go out
\* of scope and every tensor no longer reachable is freed.
Return ==
    /\ call.pc = "return"
    /\ tensors' = {IF t.id \in {call.grad_x, call.grad_y} THEN [t EXCEPT !.owner = "caller"]
                   ELSE t :
                   t \in {u \in tensors :
                            u.id \in Reachable({v.id : v \in {w \in tensors : w.owner = "caller"}}
                                                  \cup {call.grad_x, call.grad_y})}}
    /\ call' = [call EXCEPT !.pc = "idle", !.x = 0, !.y = 0, !.x_req = 0, !.y_req = 0,
                            !.phi = 0]
    /\ UNCHANGED <<phase_vars, mtf_vars>>

GradNext ==
    \/ Construct
    \/ \E x0 \in QueryCoords, y0 \in QueryCoords, n \in 1..MaxQuery, rx \in BOOLEAN,
          ry \in BOOLEAN :
        CallerArrays(x0, y0, n, rx, ry)
    \/ GradientCall
    \/ BeArray
    \/ DetachClone
    \/ HeightFn
    \/ AutogradGrad
    \/ Return

GradSpec == GradInit /\ [][GradNext]_vars

\* ------------------------------------------------------------------- claims
\* The grid of the live profile has the shape (len(y_coords), len(x_coords)).
ShapeMatches(p) ==
    /\ Rows(p.data.v) = Len(p.y_coords.v)
    /\ Cols(p.data.v) = Len(p.x_coords.v)

\* The query is the single node (i, j) of the live profile's grid.
QueryIsNode(i, j) ==
    /\ i \in DOMAIN profile.y_coords.v
    /\ j \in DOMAIN profile.x_coords.v
    /\ query.x = <<profile.x_coords.v[j]>>
    /\ query.y = <<profile.y_coords.v[i]>>

\* C1: on a grid of the right shape, height(x_coords[j], y_coords[i]) is
\* values[i, j] at every node (i, j), under both strategies.
C1_ExactAtNodes ==
    (ret.op = "height" /\ ShapeMatches(profile)) =>
        \A i \in 1..MaxLen, j \in 1..MaxLen :
            QueryIsNode(i, j) => ret.val = <<<<profile.data.v[i][j]>>>>

\* C2: a grid whose shape is not (len(y_coords), len(x_coords)) never makes a
\* profile: construction fails under either backend.
C2_ShapeCheckedAtConstruction ==
    profile # NoProfile => ShapeMatches(profile)

\* from_dict has run on the live profile's own class and returned a profile
\* with the same coordinates and grid data.
RoundTripEquals ==
    /\ restored.err = "none"
    /\ restored.self.kind = profile.kind
    /\ restored.self.x_coords.v = profile.x_coords.v
    /\ restored.self.y_coords.v = profile.y_coords.v
    /\ restored.self.data.v = profile.data.v

\* C3 as stated: whenever from_dict of the profile's class has run on
\* p.to_dict(), it has yielded a profile of that class with equal x_coords,
\* y_coords and grid data (the material aside).
C3_RoundTrip ==
    (restored.cls # "none" /\ restored.cls = profile.kind) => RoundTripEquals

\* C3: the round trip from_dict(p.to_dict()) reproduces the class, x_coords,
\* y_coords and grid data of p (the material aside) when the backend active at
\* from_dict is the one p was constructed under.
C3_RoundTripSameBackend ==
    (restored.cls # "none" /\ restored.cls = profile.kind
        /\ restored.backend = profile.backend) => RoundTripEquals

C3_Witness ==
    /\ restored.cls = "height_profile"
    /\ profile.kind = "height_profile"
    /\ restored.backend = profile.backend
    /\ restored.err = "none"
    /\ restored.self.data.v = profile.data.v
    /\ restored.self.material # profile.material

\* get_gradient of the live profile's class.
ProfileGradient(x, y, wl) ==
    IF profile.kind = "grid" THEN GridPhaseProfile_get_gradient(profile, x, y, wl)
    ELSE HeightProfile_get_gradient(profile, x, y, wl)

\* C4: get_paraxial_gradient(y, wavelength) is the second component of
\* get_gradient(0, y, wavelength), for both profile classes.
C4_ParaxialIsGradientAtZero ==
    ret.op = "get_paraxial_gradient" =>
        ret.val = <<ProfileGradient([k \in DOMAIN query.y |-> Zero], query.y,
                                    ret.wavelength)[2]>>

C4_Witness ==
    /\ ret.op = "get_paraxial_gradient"
    /\ profile.kind = "grid"
    /\ Len(query.y) = MaxQuery
    /\ \E k \in DOMAIN query.y : IsFinite(ret.val[1][k]) /\ ret.val[1][k] # Zero
    /\ GridPhaseProfile_get_gradient(profile, [k \in DOMAIN query.y |-> Zero], query.y,
                                     ret.wavelength)[1] # ret.val[1]

\* (2*pi / (wavelength * 1e-3)) * (n(wavelength) - 1) * h for one height h.
PhysicalPhase(wl, n, h) ==
    RMul(RMul(RDiv(RMul(Num(2), Pi), RMul(Num(wl), Rat(1, 1000))), RSub(n, One)), h)

\* C5: HeightProfile.get_phase(x, y, wavelength) is
\* (2*pi / (wavelength * 1e-3)) * (n(wavelength) - 1) * h(x, y) at every point.
C5_PhaseIsScaledHeight ==
    (ret.op = "get_phase" /\ profile.kind = "height_profile") =>
        LET h == height(profile._interp, query.x, query.y)
            n == MaterialN(profile.material, ret.wavelength)
        IN  ret.val = <<[k \in DOMAIN query.x |-> PhysicalPhase(ret.wavelength, n, h[k])]>>

\* wavelength 1, n = 3/2: the phase is 1000 pi times a non-zero height.
C5_Witness ==
    /\ ret.op = "get_phase"
    /\ profile.kind = "height_profile"
    /\ ret.wavelength = 1
    /\ MaterialN(profile.material, 1) = Rat(3, 2)
    /\ \E k \in DOMAIN query.x :
        /\ IsFinite(ret.val[1][k]) /\ ret.val[1][k] # Zero
        /\ ret.val[1][k] = RMul(Num(1000), height(profile._interp, query.x, query.y)[k])

\* C6: HeightProfile.get_gradient(x, y, wavelength) is
\* (factor * dh/dx, factor * dh/dy, 0) with (dh/dx, dh/dy) the interpolator's
\* gradient and factor = 2*pi / (wavelength * 1e-3) * (n(wavelength) - 1), the
\* scalar get_phase applies to the height.
C6_GradientIsScaledGradient ==
    (ret.op = "get_gradient" /\ profile.kind = "height_profile") =>
        LET g == gradient(profile._interp, query.x, query.y)
            h == height(profile._interp, query.x, query.y)
            n == MaterialN(profile.material, ret.wavelength)
            wl == ret.wavelength
            phase == HeightProfile_get_phase(profile, query.x, query.y, wl)
        IN  /\ ret.val = <<[k \in DOMAIN query.x |-> PhysicalPhase(wl, n, g[1][k])],
                           [k \in DOMAIN query.x |-> PhysicalPhase(wl, n, g[2][k])],
                           [k \in DOMAIN query.x |-> Zero]>>
            /\ phase = [k \in DOMAIN query.x |-> PhysicalPhase(wl, n, h[k])]

C6_Witness ==
    /\ ret.op = "get_gradient"
    /\ profile.kind = "height_profile"
    /\ ret.wavelength = MaxWavelength
    /\ Len(query.x) = MaxQuery
    /\ \E k \in DOMAIN query.x : IsFinite(ret.val[1][k]) /\ ret.val[1][k] # Zero
    /\ \E k \in DOMAIN query.x : IsFinite(ret.val[2][k]) /\ ret.val[2][k] # Zero

\* The three wavelength-taking methods of GridPhaseProfile.
GridPhaseOps == {"get_phase", "get_gradient", "get_paraxial_gradient"}

\* C7: on a GridPhaseProfile, get_phase is the interpolator's height at
\* (x, y), and a call of get_phase, get_gradient or get_paraxial_gradient that
\* follows a call of the same method on the same x, y returns the same values
\* whatever the two wavelengths.
C7_WavelengthHasNoEffect ==
    /\ [](ret.op = "get_phase" /\ profile.kind = "grid" =>
            ret.val = <<height(profile._interp, query.x, query.y)>>)
    /\ [][(/\ profile.kind = "grid" /\ profile' = profile /\ query' = query
           /\ ret.op \in GridPhaseOps /\ ret'.op = ret.op) => ret'.val = ret.val]_vars

C7_Witness ==
    /\ ret.op = "get_phase"
    /\ profile.kind = "grid"
    /\ ret.wavelength = MaxWavelength
    /\ \E k \in DOMAIN query.x : IsFinite(ret.val[1][k]) /\ ret.val[1][k] # Zero

\* C8: a constructor (called directly, or by from_dict once it has found its
\* keys) run under a backend other than numpy and torch raises the
\* unsupported-backend error, runs no setup routine and leaves no profile.
C8_UnsupportedBackendFails ==
    /\ built.backend \notin {"none", "numpy", "torch"} =>
        /\ built.err = "ValueError: Unsupported backend"
        /\ built.setup = "none"
        /\ profile = NoProfile
    /\ (restored.backend \notin {"none", "numpy", "torch"} /\ restored.err # "KeyError") =>
        /\ restored.err = "ValueError: Unsupported backend"
        /\ restored.setup = "none"
        /\ restored.self = NoProfile

C8_Witness ==
    /\ built.backend = "jax"
    /\ built.err = "ValueError: Unsupported backend"

\* height and gradient on arrays by the strategy of backend b.
RECURSIVE StrategyHeight(_, _, _, _)
StrategyHeight(b, self, x, y) ==
    IF x = <<>> THEN <<>>
    ELSE <<IF b = "numpy" THEN numpy_height_fn(self, Head(x), Head(y))
           ELSE torch_height_fn(self, Head(x), Head(y))>>
         \o StrategyHeight(b, self, Tail(x), Tail(y))

RECURSIVE StrategyGradient(_, _, _, _, _)
StrategyGradient(b, self, x, y, c) ==
    IF x = <<>> THEN <<>>
    ELSE <<(IF b = "numpy" THEN numpy_grad_fn(self, Head(x), Head(y))
            ELSE torch_grad_fn(self, Head(x), Head(y)))[c]>>
         \o StrategyGradient(b, self, Tail(x), Tail(y), c)

QueryIsCorner ==
    /\ profile # NoProfile
    /\ \E i \in {1, Len(profile.y_coords.v)}, j \in {1, Len(profile.x_coords.v)} :
        QueryIsNode(i, j)

\* C10: height and gradient at a corner of the grid return arrays of the
\* query's shape whose values are all finite, under both strategies.
C10_CornersFinite ==
    (ret.op \in {"height", "gradient"} /\ QueryIsCorner) =>
        \A c \in DOMAIN ret.val :
            /\ Len(ret.val[c]) = Len(query.x)
            /\ \A k \in DOMAIN ret.val[c] : IsFinite(ret.val[c][k])

C10_Witness ==
    /\ ret.op = "gradient"
    /\ built.backend = "torch"
    /\ QueryIsNode(Len(profile.y_coords.v), Len(profile.x_coords.v))
    /\ ret.val[1] # <<Zero>>

\* The wavelengths the last MTFvsField call resolves its argument to.
ResolvedWavelengths == resolve_wavelengths(analysis.args.optic, analysis.args.wavelengths)

\* The four methods of a profile that C11 is about.
QueryOps == {"get_phase", "get_gradient", "get_paraxial_gradient", "to_dict"}

\* What a call of method op with the given wavelength returns on the profile
\* and the query arrays as they are now.
ResultOf(op, wl) ==
    [op |-> op,
     wavelength |-> wl,
     val |-> IF op = "get_phase"
             THEN <<IF profile.kind = "grid"
                    THEN GridPhaseProfile_get_phase(profile, query.x, query.y, wl)
                    ELSE HeightProfile_get_phase(profile, query.x, query.y, wl)>>
             ELSE IF op = "get_gradient" THEN ProfileGradient(query.x, query.y, wl)
             ELSE IF op = "get_paraxial_gradient"
             THEN <<IF profile.kind = "grid"
                    THEN GridPhaseProfile_get_paraxial_gradient(profile, query.y, wl)
                    ELSE HeightProfile_get_paraxial_gradient(profile, query.y, wl)>>
             ELSE <<>>,
     data |-> IF op # "to_dict" THEN NoDict
              ELSE IF profile.kind = "grid" THEN GridPhaseProfile_to_dict(profile)
              ELSE HeightProfile_to_dict(profile)]

\* C11: a call of get_phase, get_gradient, get_paraxial_gradient or to_dict
\* leaves the profile (x_coords, y_coords, grid data, material and the state
\* of its interpolator) as it was, and what a call returned is what the same
\* call on the same inputs returns at any later point, whatever was called in
\* between.
C11_QueriesArePure ==
    /\ [][ret'.op \in QueryOps => profile' = profile]_vars
    /\ [](ret.op \in QueryOps => ret = ResultOf(ret.op, ret.wavelength))

\* The gradient of a HeightProfile built under torch has been returned.
C11_Witness ==
    /\ ret.op = "get_gradient"
    /\ profile.kind = "height_profile"
    /\ profile._interp._grad_fn = "torch.grad_fn"
    /\ ret = ResultOf("get_gradient", MaxWavelength)
    /\ Len(query.x) = MaxQuery
    /\ \E k \in DOMAIN query.x : IsFinite(ret.val[2][k]) /\ ret.val[2][k] # Zero

\* The step of the finite difference.
FdStep == Rat(1, 4)

\* (h(x + eps, y) - h(x - eps, y)) / (2 * eps) and likewise in y, on the
\* interpolator of the profile.
FiniteDifference(x, y) ==
    <<RDiv(RSub(height_at(profile._interp, RAdd(x, FdStep), y),
                height_at(profile._interp, RSub(x, FdStep), y)),
           RMul(Num(2), FdStep)),
      RDiv(RSub(height_at(profile._interp, x, RAdd(y, FdStep)),
                height_at(profile._interp, x, RSub(y, FdStep))),
           RMul(Num(2), FdStep))>>

\* v lies between the smallest and the largest value of set S.
Between(v, S) == (\E a \in S : RLe(a, v)) /\ (\E b \in S : RLe(v, b))

\* The finite-difference stencil around u lies strictly inside axis t.
StencilInside(t, u) ==
    /\ RLe(t[1], RSub(u, FdStep)) /\ t[1] # RSub(u, FdStep)
    /\ RLe(RAdd(u, FdStep), t[Len(t)]) /\ t[Len(t)] # RAdd(u, FdStep)

\* C12: at a point whose finite-difference stencil lies inside the grid, each
\* partial that gradient(x, y) returns matches the centered finite difference
\* of height(): the finite difference lies within the range the partial takes
\* over the stencil (the two end points and the point itself), which is the
\* tolerance of the strategy.  Under both strategies.
C12_GradientMatchesFiniteDifference ==
    ret.op = "gradient" =>
        \A k \in DOMAIN query.x :
            (/\ StencilInside(profile._interp.x_coords.v, query.x[k])
             /\ StencilInside(profile._interp.y_coords.v, query.y[k])) =>
                LET x == query.x[k]
                    y == query.y[k]
                    fd == FiniteDifference(x, y)
                IN  /\ Between(fd[1], {gradient_at(profile._interp, RSub(x, FdStep), y)[1],
                                       ret.val[1][k],
                                       gradient_at(profile._interp, RAdd(x, FdStep), y)[1]})
                    /\ Between(fd[2], {gradient_at(profile._interp, x, RSub(y, FdStep))[2],
                                       ret.val[2][k],
                                       gradient_at(profile._interp, x, RAdd(y, FdStep))[2]})

\* Under the sampling strategy on a non-uniform x axis, at a point where the
\* partial in y is not zero.
C12_Witness ==
    /\ ret.op = "gradient"
    /\ profile._interp._grad_fn = "torch.grad_fn"
    /\ profile._interp.x_coords.v = <<Num(0 - 1), Num(0), Num(2)>>
    /\ StencilInside(profile._interp.x_coords.v, query.x[1])
    /\ StencilInside(profile._interp.y_coords.v, query.y[1])
    /\ ret.val[2][1] # Zero
    /\ ret.val[1][1] # Zero

\* The nodes <<t[i], t[i + 1]>> of axis t with t[i] <= u < t[i + 1]: the grid
\* cell that holds u.
CellOf(t, u) ==
    LET i == CHOOSE j \in 1..(Len(t) - 1) : RLe(t[j], u) /\ RLe(u, t[j + 1]) /\ u # t[j + 1]
    IN  <<t[i], t[i + 1]>>

\* The slope of x^2 and of y^3 between the two ends of a cell.
SecantOfSquare(cell) == RAdd(cell[1], cell[2])

SecantOfCube(cell) ==
    RAdd(RAdd(RPow(cell[1], 2), RMul(cell[1], cell[2])), RPow(cell[2], 2))

\* C14: gradient returns (d/dx, d/dy), x running along the columns of the grid
\* and y along its rows: on a grid sampled from x^2 + y^3, gradient(1/2, 1) is
\* (2x, 3y^2) = (1, 3) under the spline strategy, and under the sampling
\* strategy the slope of x^2 across the cell of columns that holds x = 1/2
\* and the slope of y^3 across the cell of rows that holds y = 1, to which
\* (2x, 3y^2) is the limit as the cells shrink.
C14_GradientOrder ==
    (ret.op = "gradient" /\ ShapeMatches(profile)) =>
        \A k \in DOMAIN query.x :
            (query.x[k] = Rat(1, 2) /\ query.y[k] = One) =>
                IF profile._interp._grad_fn = "numpy.grad_fn"
                THEN ret.val[1][k] = Num(1) /\ ret.val[2][k] = Num(3)
                ELSE /\ ret.val[1][k] = SecantOfSquare(CellOf(profile.x_coords.v, Rat(1, 2)))
                     /\ ret.val[2][k] = SecantOfCube(CellOf(profile.y_coords.v, One))

\* A tensor that carries no autograd graph and asks for no gradient.
IsPlain(t) == ~t.requires_grad /\ t.refs = {} /\ ~t.saved

\* C15: under the sampling strategy a gradient() call works on copies of the
\* query tensors: the caller's x and y keep their values and their
\* requires_grad flag throughout; no step of the call changes the profile or
\* its interpolator; and once a call has returned, after any number of
\* calls, the only tensors alive are the caller's x and y and the two
\* gradients returned, which carry no graph.
C15_GradientKeepsNothing ==
    /\ [](call.n > 0 => call.before \subseteq tensors)
    /\ [][(call.pc # "idle" \/ call'.pc # "idle") => profile' = profile]_vars
    /\ []((call.pc = "idle" /\ call.n > 0) =>
            /\ {t.id : t \in tensors \ call.before} = {call.grad_x, call.grad_y}
            /\ \A t \in tensors \ call.before : IsPlain(t) /\ t.owner = "caller")

\* The second call on tensors that do not require a gradient has returned
\* a non-zero partial in y.
C15_Witness ==
    /\ call.pc = "idle"
    /\ call.n = MaxCalls
    /\ profile._interp._grad_fn = "torch.grad_fn"
    /\ \A t \in call.before : ~t.requires_grad /\ Len(t.data) = MaxQuery
    /\ \E t \in tensors : t.id = call.grad_y /\ t.data[1] # Zero

\* The last MTFvsField call raised ValueError before any MTF was calculated.
RaisedBeforeData ==
    /\ analysis.err \in {"ValueError: Number of frequencies",
                         "ValueError: Number of wavelengths"}
    /\ analysis.sampled = 0
    /\ analysis.self.data = <<>>

\* C13: without override_limits, MTFvsField raises ValueError for more than 5
\* frequencies and for more than 3 resolved wavelengths, before any MTF data
\* is generated; with override_limits it raises neither and the instance
\* holds all the frequencies and wavelengths given.
C13_LimitsChecked ==
    analysis.called =>
        /\ (~analysis.args.override_limits
                /\ Len(analysis.args.frequencies) > 5) =>
            (RaisedBeforeData /\ analysis.err = "ValueError: Number of frequencies")
        /\ (~analysis.args.override_limits /\ Len(ResolvedWavelengths) > 3) =>
            RaisedBeforeData
        /\ (~analysis.args.override_limits
                /\ Len(analysis.args.frequencies) <= 5
                /\ Len(ResolvedWavelengths) > 3) =>
            analysis.err = "ValueError: Number of wavelengths"
        /\ analysis.args.override_limits =>
            /\ analysis.err = "none"
            /\ analysis.self.frequencies = analysis.args.frequencies
            /\ analysis.self.wavelengths = ResolvedWavelengths
            /\ Len(analysis.self.data) = Len(ResolvedWavelengths)

\* "all" on an optical system of four wavelengths is refused.
C13_Witness ==
    /\ analysis.called
    /\ ~analysis.args.override_limits
    /\ analysis.args.wavelengths.kind = "all"
    /\ Len(analysis.args.frequencies) = 1
    /\ Len(ResolvedWavelengths) = 4
    /\ analysis.err = "ValueError: Number of wavelengths"

\* The MTF of the optical system at field number k of n, wavelength wl and
\* frequency pair freq, as the built analysis asks SampledMTF for it.
MtfAt(k, n, wl, freq) ==
    [optic |-> analysis.self.optic,
     field |-> <<Zero, IF n = 1 THEN Zero ELSE Rat(k - 1, n - 1)>>,
     wavelength |-> wl, num_rays |-> analysis.self.num_rays, freq |-> freq]

\* C16: the data of a built MTFvsField has one entry per wavelength, each
\* with one entry per frequency in the order of self.frequencies, each of
\* these with num_fields tangential and num_fields sagittal values in field
\* order: the tangential ones are the MTF at (freq, 0) and the sagittal ones
\* the MTF at (0, freq) of that field and wavelength.
C16_DataStructure ==
    (analysis.called /\ analysis.err = "none") =>
        LET self == analysis.self
            n == self.num_fields
        IN  /\ DOMAIN self.data = 1..Len(self.wavelengths)
            /\ \A w \in DOMAIN self.data :
                /\ DOMAIN self.data[w] = 1..Len(self.frequencies)
                /\ \A f \in DOMAIN self.data[w] :
                    /\ DOMAIN self.data[w][f] = {"tangential", "sagittal"}
                    /\ DOMAIN self.data[w][f].tangential = 1..n
                    /\ DOMAIN self.data[w][f].sagittal = 1..n
                    /\ \A k \in 1..n :
                        /\ self.data[w][f].tangential[k]
                            = MtfAt(k, n, self.wavelengths[w], <<self.frequencies[f], 0>>)
                        /\ self.data[w][f].sagittal[k]
                            = MtfAt(k, n, self.wavelengths[w], <<0, self.frequencies[f]>>)

\* Two wavelengths, descending frequencies, two fields.
C16_Witness ==
    /\ analysis.called
    /\ analysis.err = "none"
    /\ Len(analysis.self.wavelengths) = 2
    /\ Len(analysis.self.frequencies) = 3
    /\ analysis.self.frequencies[1] > analysis.self.frequencies[2]
    /\ analysis.self.num_fields = MaxFields
    /\ analysis.self.data[2][3].sagittal[MaxFields].freq = <<0, 10>>

====
